---- MODULE Spec2Model ----
(***************************************************************************)
(* fnmock: the runtime mock registry (MOCKS, MockRegistry, MockGuard) and  *)
(* the dispatch wrappers / set-mock helpers that #[mockable] generates for *)
(* the three mockable definitions of tests/test.rs.                        *)
(*                                                                         *)
(* Every registry operation is split at the points where another thread    *)
(* can interleave: MOCKS.lock() returning, the body executed under the     *)
(* lock, and the return (which drops the MutexGuard).                      *)
(***************************************************************************)
EXTENDS Integers, Sequences, FiniteSets, TLC

\* ------------------------------------------------------------------ bounds
\* Total number of set_mock calls (guards minted) in one behaviour.
MaxGuards == 2

\* ------------------------------------------------------- option encoding
\* Option<T>: None is the empty sequence, Some(x) the one-element sequence.
None == << >>
Some(x) == << x >>
IsSome(o) == Len(o) = 1
Unwrap(o) == o[1]

\* --------------------------------------------------------------- threads
\* The test runner's threads; each runs test bodies that use the registry.
Threads == {"t1", "t2"}

\* The threads whose test bodies also call MockRegistry::set_mock and
\* MockRegistry::get_mock directly; the others go through the generated
\* helpers and wrappers only.
DirectCallers == {"t1"}

\* --------------------------------------------- the mockable definitions
\* tests/test.rs: one free function and the two methods of impl A.
\* recv is the receiver type of a method ("" for none), params the typed
\* parameters, ret the declared return type.
ModulePath == "test"

Fns ==
  { [id |-> "fetch_data", owner |-> "",  name |-> "fetch_data",
     recv |-> "",   params |-> << "&str" >>, ret |-> "String", async |-> FALSE],
    [id |-> "A::test", owner |-> "A", name |-> "test",
     recv |-> "&A", params |-> << >>,        ret |-> "i32",    async |-> FALSE],
    [id |-> "A::async_test", owner |-> "A", name |-> "async_test",
     recv |-> "&A", params |-> << >>,        ret |-> "i32",    async |-> TRUE] }

\* A string built piece by piece: the pieces in order, joined by sep.
RECURSIVE Join(_, _)
Join(pieces, sep) ==
  IF pieces = << >> THEN ""
  ELSE IF Len(pieces) = 1 THEN pieces[1]
  ELSE pieces[1] \o sep \o Join(Tail(pieces), sep)

\* module_path!(): the crate and the modules down to the one the macro is
\* expanded in, joined by "::".  An item declared inside a function body
\* has the module path of the function.
ModulePathOf(segments) == Join(segments, "::")

\* quote!(#self_ty).to_string(): the tokens of the type with a space
\* between any two; the printed string is kept as its pieces.
RECURSIVE TokensToString(_)
TokensToString(tokens) ==
  IF Len(tokens) <= 1 THEN tokens
  ELSE << tokens[1], " " >> \o TokensToString(Tail(tokens))

\* .replace(' ', ""): every space of the printed string goes (no token
\* holds one).
ReplaceSpaces(printed) == SelectSeq(printed, LAMBDA piece : piece # " ")

\* let type_name = quote!(#self_ty).to_string().replace(' ', "");
TypeNameOf(self_ty) == Join(ReplaceSpaces(TokensToString(self_ty)), "")

\* concat!(module_path!(), "::", #fn_name_str)
MockKeyFn(module_path, fn_name_str) == module_path \o "::" \o fn_name_str

\* concat!(module_path!(), "::", #type_name, "::", #fn_name_str)
MockKeyImpl(module_path, type_name, fn_name_str) ==
  module_path \o "::" \o type_name \o "::" \o fn_name_str

\* The key a definition's helper and wrapper are both generated with.
MockKey(f) ==
  IF f.owner = "" THEN MockKeyFn(ModulePath, f.name)
  ELSE MockKeyImpl(ModulePath, TypeNameOf(<< f.owner >>), f.name)

\* What the macro reads of an annotated item to build its key: where it
\* is expanded (module), the tokens of the impl block's self type (none
\* for a free function) and the function's name.
ItemOf(f) ==
  [module |-> << ModulePath >>,
   self_ty |-> IF f.owner = "" THEN << >> ELSE << f.owner >>,
   name |-> f.name]

\* mock_key of generate_mockable_fn / generate_mockable_impl.
ItemKey(d) ==
  IF d.self_ty = << >>
    THEN MockKeyFn(ModulePathOf(d.module), d.name)
    ELSE MockKeyImpl(ModulePathOf(d.module), TypeNameOf(d.self_ty), d.name)

\* dyn Fn(<receiver>, <params>) -> <ret> + Send + Sync
MockFnType(f) ==
  [params |-> (IF f.recv = "" THEN << >> ELSE << f.recv >>) \o f.params,
   ret    |-> f.ret]

\* The definitions the modelled test bodies mock and call.  A::async_test
\* has the key scheme and callable type of A::test and is left to them.
Exercised == { f \in Fns : ~f.async }

Keys == { MockKey(f) : f \in Exercised }
Types == { MockFnType(f) : f \in Exercised }

\* ------------------------------------------------------------ substitutes
\* The closures test code registers, each with the callable type it is
\* wrapped as (Arc<dyn Fn(..) -> ..>).
StrToString == [params |-> << "&str" >>, ret |-> "String"]
RefAToI32   == [params |-> << "&A" >>,   ret |-> "i32"]

Subs == {"mocked_data", "other_data", "always_20"}

TypeOf(sub) == IF sub = "always_20" THEN RefAToI32 ELSE StrToString

\* An argument list is its values with their types (receiver first).
\* Calling a substitute on the forwarded arguments; the type system admits
\* only calls with the parameter types of the callable's type.
Invoke(sub, args) ==
  CASE args.tys # TypeOf(sub).params -> "ill-typed call"
    [] sub = "mocked_data" -> "Mocked data from " \o args.vals[1]
    [] sub = "other_data"  -> "Other data from " \o args.vals[1]
    [] sub = "always_20"   -> 20

\* The renamed originals (__<name>_original).
Original(f, args) ==
  CASE f.id = "fetch_data"    -> "Real data from " \o args.vals[1]
    [] f.id = "A::test"       -> args.vals[1].x
    [] f.id = "A::async_test" -> args.vals[1].x

\* The argument lists the tests call each definition with.
Urls == {"test.com", "a.org"}
Receivers == { [x |-> 10] }
ArgsOf(f) ==
  IF f.recv = ""
    THEN { [tys |-> f.params, vals |-> << u >>] : u \in Urls }
    ELSE { [tys |-> << f.recv >>, vals |-> << a >>] : a \in Receivers }


FnById(id) == CHOOSE f \in Fns : f.id = id

\* ------------------------------------------------ the registry container
\* MOCKS is a HashMap<String, Box<dyn Any + Send>>.  The map is a set of
\* entries [key, ty, sub]: ty is the type F of the boxed MockWrapper<F>
\* (what downcast_ref compares), sub the callable the Arc<F> points to.

\* Mutant: the Arc is boxed bare, not as MockWrapper<F>.
MockWrapperBare(F, sub) == [ty |-> [params |-> << >>, ret |-> "Arc"], sub |-> sub]

\* MockWrapper(mock) boxed as dyn Any: the erased value with its type.
MockWrapper(F, sub) == [ty |-> F, sub |-> sub]

\* Mutant: the insertion is lost.
HashMapInsertNothing(map, name, boxed) == map

\* Mutant: an existing entry is kept (entry().or_insert()).
HashMapInsertIfAbsent(map, name, boxed) ==
  IF \E e \in map : e.key = name THEN map
  ELSE map \cup { [key |-> name, ty |-> boxed.ty, sub |-> boxed.sub] }

\* HashMap::insert: the value under an existing key is replaced.
HashMapInsert(map, name, boxed) ==
  { e \in map : e.key # name }
    \cup { [key |-> name, ty |-> boxed.ty, sub |-> boxed.sub] }

\* Mutant: the removal leaves the map as it is.
HashMapRemoveNothing(map, name) == map

\* Mutant: the removal keeps the key and drops the others.
HashMapRemoveOthers(map, name) == { e \in map : e.key = name }

\* Mutant: the removal empties the map (clear()).
HashMapRemoveAll(map, name) == {}

\* Mutant: removing an absent key leaves a marker under it.
HashMapRemoveMarks(map, name) ==
  IF \E e \in map : e.key = name THEN { e \in map : e.key # name }
  ELSE map \cup { [key |-> name, ty |-> [params |-> << >>, ret |-> ""], sub |-> ""] }

\* HashMap::remove: the entry of the key goes, if there is one.
HashMapRemove(map, name) == { e \in map : e.key # name }

\* Mutant: the lookup ignores the key and takes any entry.
HashMapGetAny(map, name) ==
  IF map # {} THEN Some(CHOOSE e \in map : TRUE) ELSE None

\* HashMap::get: Option<&Box<dyn Any>>.
HashMapGet(map, name) ==
  IF \E e \in map : e.key = name
    THEN Some(CHOOSE e \in map : e.key = name)
    ELSE None

\* Mutant: the cast is not checked.
DowncastUnchecked(boxed, F) == Some(boxed)

\* boxed.downcast_ref::<MockWrapper<F>>(): Some only for the exact type.
DowncastRef(boxed, F) == IF boxed.ty = F THEN Some(boxed) ELSE None

\* Arc::clone(&wrapper.0): a new handle to the same callable.
ArcClone(wrapper) == wrapper.sub

\* The expression of get_mock: get(name).and_then(downcast).map(clone).
LookupMock(map, name, F) ==
  LET got == HashMapGet(map, name) IN
  IF ~IsSome(got) THEN None
  ELSE LET down == DowncastRef(Unwrap(got), F) IN
       IF ~IsSome(down) THEN None ELSE Some(ArcClone(Unwrap(down)))

\* Mutant: lock() returns whether or not the mutex is held.
MutexFreeAlways(l) == TRUE

\* std::sync::Mutex: lock() returns only while no thread holds the mutex.
MutexFree(l) == l = "free"

\* ------------------------------------------------------------------ state
VARIABLES
  mocks,    \* MOCKS: the set of entries in the map
  lock,     \* the Mutex around the map: "free" or the holding thread
  pc,       \* per thread: "idle", "body", "unlock", "dispatch", "ret"
  cur,      \* per thread: the operation in progress
  seen,     \* per thread: what mocks.get(name) gave in this get_mock
  found,    \* per thread: what this get_mock returned
  ret,      \* per thread: what this dispatch wrapper call returns
  scope,    \* per thread: the guards its test body holds, oldest first
  exiting,  \* per thread: the test body is returning, dropping its locals
  guards,   \* every MockGuard minted so far: its name, and as history
            \* st ("held", "dropping", "dropped"), removes (the removals
            \* its drop made) and orphaned (while the guard lives:
            \* another guard of its key was released since the latest
            \* set on that key)
  lin,      \* history: the map after the operations in lock order
  live,     \* history: per key, what its latest set or release left
  over,     \* history: per key, what its latest set overwrote
  done,     \* history: per key, the same for the operations that returned
  everSet,  \* history: the keys set_mock was ever called with
  hist,     \* per thread: history facts recorded for the get in progress
  expanded, \* compile time: the key of every definition #[mockable] has
            \* been expanded on so far
  arcs,     \* the Arc allocations made by the set-mock helpers: the closure
            \* (kind, key, the MockGuard it owns), strong count, alive
  poisoned, \* the poison flag of the Mutex
  tasks,    \* per thread: what it has still to do, innermost call first
  mode      \* per thread: "run", "unwind" (panicking), "stuck" (blocked in
            \* lock() for ever), "aborted"

vars == << mocks, lock, pc, cur, seen, found, ret, scope, exiting, guards,
           lin, live, over, done, everSet, hist, expanded,
           arcs, poisoned, tasks, mode >>

\* What no step of a running test changes.
untouched == << expanded, arcs, poisoned, tasks, mode >>

\* What the expansion of #[mockable] at compile time does not touch.
runtime == << mocks, lock, pc, cur, seen, found, ret, scope, exiting, guards,
             lin, live, over, done, everSet, hist, arcs, poisoned, tasks, mode >>

NoType == [params |-> << >>, ret |-> ""]

NoOp == [op |-> "none", via |-> "", name |-> "", ty |-> NoType, sub |-> "",
         fn |-> "", args |-> [tys |-> << >>, vals |-> << >>], guard |-> 0]

NoHist == [expect |-> None, hb |-> None, rel |-> FALSE, bare |-> FALSE,
           before |-> {}]

GuardIds == 1 .. Len(guards)

\* The guard of the latest set_mock on its key.
Fresh(g) == \A h \in GuardIds : h > g => guards[h].name # guards[g].name

\* set_mock calls in progress that have not minted their guard yet.
PendingSets ==
  Cardinality({ t \in Threads : cur[t].op = "set" /\ pc[t] = "body" })

\* The registry before any test has run.
RegistryInit ==
  /\ mocks = {}
  /\ lock = "free"
  /\ pc = [t \in Threads |-> "idle"]
  /\ cur = [t \in Threads |-> NoOp]
  /\ seen = [t \in Threads |-> None]
  /\ found = [t \in Threads |-> None]
  /\ ret = [t \in Threads |-> None]
  /\ scope = [t \in Threads |-> << >>]
  /\ exiting = [t \in Threads |-> FALSE]
  /\ guards = << >>
  /\ lin = {}
  /\ live = [k \in Keys |-> None]
  /\ over = [k \in Keys |-> None]
  /\ done = [k \in Keys |-> None]
  /\ everSet = {}
  /\ hist = [t \in Threads |-> NoHist]

\* No closure allocated, the Mutex not poisoned, every thread running with
\* nothing under way.
OwnershipInit ==
  /\ arcs = << >>
  /\ poisoned = FALSE
  /\ tasks = [t \in Threads |-> << >>]
  /\ mode = [t \in Threads |-> "run"]

\* The tests of tests/test.rs start with its three definitions expanded.
Init ==
  /\ RegistryInit
  /\ OwnershipInit
  /\ expanded = [d \in { ItemOf(f) : f \in Fns } |-> ItemKey(d)]

\* A thread may start an operation of its test body.
Ready(t) == pc[t] = "idle" /\ ~exiting[t]

\* The effect of an operation on a map.
Effect(map, op) ==
  CASE op.op = "set"  -> HashMapInsert(map, op.name, MockWrapper(op.ty, op.sub))
    [] op.op = "drop" -> HashMapRemove(map, op.name)
    [] OTHER          -> map

\* let mocks = MOCKS.lock().unwrap(): every registry operation starts by
\* taking the lock; the call returns with the lock held.
Acquire(t, op) ==
  /\ pc[t] = "idle"
  /\ MutexFree(lock)
  /\ lock' = t
  /\ pc' = [pc EXCEPT ![t] = "body"]
  /\ cur' = [cur EXCEPT ![t] = op]
  /\ lin' = Effect(lin, op)
  /\ hist' = [hist EXCEPT ![t] =
       CASE op.op = "get" ->
              [NoHist EXCEPT !.expect = LookupMock(lin, op.name, op.ty),
                             !.hb = done[op.name]]
         [] op.op = "drop" -> [NoHist EXCEPT !.before = mocks]
         [] OTHER -> NoHist]

\* ------------------------------------------ calls made by the test bodies
\* set_mock_<fn>(mock): the generated helper.  The bound on F admits only
\* closures of the definition's signature; the helper wraps the closure as
\* Arc<#mock_fn_type> and calls MockRegistry::set_mock with #mock_key.
HelperOp(f, sub) ==
  [NoOp EXCEPT !.op = "set", !.via = "helper", !.name = MockKey(f),
               !.ty = MockFnType(f), !.sub = sub, !.fn = f.id]

CallSetHelper(t, f, sub) ==
  /\ Ready(t)
  /\ Len(guards) + PendingSets < MaxGuards
  /\ TypeOf(sub) = MockFnType(f)
  /\ Acquire(t, HelperOp(f, sub))
  /\ everSet' = everSet \cup {MockKey(f)}
  /\ UNCHANGED << mocks, seen, found, ret, scope, exiting, guards, live, over, done >>
  /\ UNCHANGED untouched

\* MockRegistry::set_mock(name, mock) called directly with an Arc<F> whose
\* F is not the type the wrapper of that key asks for (with that type the
\* call is the helper's).
CallSetDirect(t, f, sub) ==
  /\ Ready(t)
  /\ Len(guards) + PendingSets < MaxGuards
  /\ TypeOf(sub) # MockFnType(f)
  /\ Acquire(t, [NoOp EXCEPT !.op = "set", !.via = "direct",
                             !.name = MockKey(f), !.ty = TypeOf(sub), !.sub = sub])
  /\ everSet' = everSet \cup {MockKey(f)}
  /\ UNCHANGED << mocks, seen, found, ret, scope, exiting, guards, live, over, done >>
  /\ UNCHANGED untouched

\* A call of the dispatch wrapper of f: it starts with
\* MockRegistry::get_mock::<#mock_fn_type>(#mock_key).  The arguments take
\* no part in get_mock; they are drawn where the wrapper first uses them.
WrapperOp(f) ==
  [NoOp EXCEPT !.op = "get", !.via = "wrapper", !.name = MockKey(f),
               !.ty = MockFnType(f), !.fn = f.id]

CallWrapper(t, f) ==
  /\ Ready(t)
  /\ Acquire(t, WrapperOp(f))
  /\ UNCHANGED << mocks, seen, found, ret, scope, exiting, guards, live, over, done,
                  everSet >>
  /\ UNCHANGED untouched

\* MockRegistry::get_mock::<F>(name) called directly with a type other than
\* the one the wrapper of that key asks for.
CallGetDirect(t, f, F) ==
  /\ Ready(t)
  /\ F # MockFnType(f)
  /\ Acquire(t, [NoOp EXCEPT !.op = "get", !.via = "direct",
                             !.name = MockKey(f), !.ty = F])
  /\ UNCHANGED << mocks, seen, found, ret, scope, exiting, guards, live, over, done,
                  everSet >>
  /\ UNCHANGED untouched

\* Mutant: the guard stays in the scope it was dropped from.
MoveOutKeep(held, i) == held

\* The sequence without its i-th element: the guard is moved out.
MoveOut(held, i) == SubSeq(held, 1, i - 1) \o SubSeq(held, i + 1, Len(held))

\* MockGuard::drop(&mut self) begins for guard g.
DropOp(g, via) ==
  [NoOp EXCEPT !.op = "drop", !.via = via, !.name = guards[g].name, !.guard = g]

\* drop(g): the guard is moved out of the test body and MockGuard::drop runs.
DropExplicit(t, i) ==
  /\ Ready(t)
  /\ i \in 1 .. Len(scope[t])
  /\ Acquire(t, DropOp(scope[t][i], "explicit"))
  /\ guards' = [guards EXCEPT ![scope[t][i]].st = "dropping"]
  /\ scope' = [scope EXCEPT ![t] = MoveOut(scope[t], i)]
  /\ UNCHANGED << mocks, seen, found, ret, exiting, live, over, done, everSet >>
  /\ UNCHANGED untouched

\* The test body returns: the guards it still holds are dropped, the last
\* declared first, one MockGuard::drop after the other.
ScopeExit(t) ==
  /\ scope[t] # << >>
  /\ Acquire(t, DropOp(scope[t][Len(scope[t])], "scope"))
  /\ guards' = [guards EXCEPT ![scope[t][Len(scope[t])]].st = "dropping"]
  /\ scope' = [scope EXCEPT ![t] = SubSeq(scope[t], 1, Len(scope[t]) - 1)]
  /\ exiting' = [exiting EXCEPT ![t] = Len(scope[t]) > 1]
  /\ UNCHANGED << mocks, seen, found, ret, live, over, done, everSet >>
  /\ UNCHANGED untouched

\* ------------------------------------------------- the registry operations
\* set_mock under the lock: wrap, insert, mint the guard.
SetBody(t) ==
  /\ pc[t] = "body"
  /\ cur[t].op = "set"
  /\ mocks' = HashMapInsert(mocks, cur[t].name, MockWrapper(cur[t].ty, cur[t].sub))
  /\ guards' = Append([g \in GuardIds |->
                         IF guards[g].name = cur[t].name
                           THEN [guards[g] EXCEPT !.orphaned = FALSE]
                           ELSE guards[g]],
                       [name |-> cur[t].name, st |-> "held",
                        orphaned |-> FALSE, removes |-> 0])
  /\ cur' = [cur EXCEPT ![t].guard = Len(guards) + 1]
  /\ live' = [live EXCEPT ![cur[t].name] =
                Some([ty |-> cur[t].ty, sub |-> cur[t].sub, fn |-> cur[t].fn])]
  /\ over' = [over EXCEPT ![cur[t].name] = live[cur[t].name]]
  /\ pc' = [pc EXCEPT ![t] = "unlock"]
  /\ UNCHANGED << lock, seen, found, ret, scope, exiting, lin, done, everSet, hist >>
  /\ UNCHANGED untouched

\* Mutant: get_mock takes the entry out of the map (remove for get).
GetBodyTakes(t) ==
  /\ mocks' = HashMapRemove(mocks, cur[t].name)
  /\ pc[t] = "body"
  /\ cur[t].op = "get"
  /\ seen' = [seen EXCEPT ![t] = HashMapGet(mocks, cur[t].name)]
  /\ found' = [found EXCEPT ![t] = LookupMock(mocks, cur[t].name, cur[t].ty)]
  /\ hist' = [hist EXCEPT ![t].rel =
                \E g \in GuardIds : /\ guards[g].name = cur[t].name
                                    /\ guards[g].st = "dropped"
                                    /\ Fresh(g),
                          ![t].bare =
                \A g \in GuardIds : guards[g].st = "dropped"]
  /\ pc' = [pc EXCEPT ![t] = "unlock"]
  /\ UNCHANGED << lock, cur, ret, scope, exiting, guards, lin, live, over,
                  done, everSet >>
  /\ UNCHANGED untouched

\* get_mock under the lock: get, downcast, clone.
GetBody(t) ==
  /\ pc[t] = "body"
  /\ cur[t].op = "get"
  /\ seen' = [seen EXCEPT ![t] = HashMapGet(mocks, cur[t].name)]
  /\ found' = [found EXCEPT ![t] = LookupMock(mocks, cur[t].name, cur[t].ty)]
  /\ hist' = [hist EXCEPT ![t].rel =
                \E g \in GuardIds : /\ guards[g].name = cur[t].name
                                    /\ guards[g].st = "dropped"
                                    /\ Fresh(g),
                          ![t].bare =
                \A g \in GuardIds : guards[g].st = "dropped"]
  /\ pc' = [pc EXCEPT ![t] = "unlock"]
  /\ UNCHANGED << mocks, lock, cur, ret, scope, exiting, guards, lin, live, over,
                  done, everSet >>
  /\ UNCHANGED untouched

\* MockGuard::drop under the lock: mocks.remove(&self.name).
DropBody(t) ==
  /\ pc[t] = "body"
  /\ cur[t].op = "drop"
  /\ mocks' = HashMapRemove(mocks, cur[t].name)
  /\ guards' = [g \in GuardIds |->
       IF g = cur[t].guard
         THEN [guards[g] EXCEPT !.st = "dropped", !.removes = @ + 1]
       ELSE IF guards[g].name = cur[t].name /\ guards[g].st # "dropped"
         THEN [guards[g] EXCEPT !.orphaned = TRUE]
       ELSE guards[g]]
  /\ live' = [live EXCEPT ![cur[t].name] = None]
  /\ over' = [over EXCEPT ![cur[t].name] = None]
  /\ pc' = [pc EXCEPT ![t] = "unlock"]
  /\ UNCHANGED << lock, cur, seen, found, ret, scope, exiting, lin, done, everSet,
                  hist >>
  /\ UNCHANGED untouched

\* The operation returns: the MutexGuard goes out of scope, which unlocks.
\* set_mock hands its MockGuard to the test body; a wrapper goes on to
\* dispatch on what get_mock returned.
Unlock(t) ==
  /\ pc[t] = "unlock"
  /\ lock' = "free"
  /\ done' = CASE cur[t].op = "set" ->
                    [done EXCEPT ![cur[t].name] =
                       Some([ty |-> cur[t].ty, sub |-> cur[t].sub])]
               [] cur[t].op = "drop" -> [done EXCEPT ![cur[t].name] = None]
               [] OTHER -> done
  /\ scope' = [scope EXCEPT ![t] =
                 IF cur[t].op = "set" THEN Append(@, cur[t].guard) ELSE @]
  /\ IF cur[t].via = "wrapper"
       THEN /\ pc' = [pc EXCEPT ![t] = "dispatch"]
            /\ UNCHANGED << cur, seen, found, hist >>
       ELSE /\ pc' = [pc EXCEPT ![t] = "idle"]
            /\ cur' = [cur EXCEPT ![t] = NoOp]
            /\ seen' = [seen EXCEPT ![t] = None]
            /\ found' = [found EXCEPT ![t] = None]
            /\ hist' = [hist EXCEPT ![t] = NoHist]
  /\ guards' = IF cur[t].op = "drop"
                 THEN [guards EXCEPT ![cur[t].guard].orphaned = FALSE]
                 ELSE guards
  /\ UNCHANGED << mocks, ret, exiting, lin, live, over, everSet >>
  /\ UNCHANGED untouched

\* Mutant: the substitute's result is dropped (no return) and the original
\* runs all the same.
WrapperResultNoReturn(f, args, got) == Original(f, args)

\* The wrapper's body after get_mock: if let Some(mock_fn) = .. { return
\* mock_fn(args) } else the renamed original.
WrapperResult(f, args, got) ==
  IF IsSome(got) THEN Invoke(Unwrap(got), args) ELSE Original(f, args)

Dispatch(t, args) ==
  /\ pc[t] = "dispatch"
  /\ args \in ArgsOf(FnById(cur[t].fn))
  /\ cur' = [cur EXCEPT ![t].args = args]
  /\ ret' = [ret EXCEPT ![t] = Some(WrapperResult(FnById(cur[t].fn), args, found[t]))]
  /\ pc' = [pc EXCEPT ![t] = "ret"]
  /\ UNCHANGED << mocks, lock, seen, found, scope, exiting, guards,
                  lin, live, over, done, everSet, hist >>
  /\ UNCHANGED untouched

\* The wrapper returns to the test body.
Return(t) ==
  /\ pc[t] = "ret"
  /\ pc' = [pc EXCEPT ![t] = "idle"]
  /\ cur' = [cur EXCEPT ![t] = NoOp]
  /\ seen' = [seen EXCEPT ![t] = None]
  /\ found' = [found EXCEPT ![t] = None]
  /\ ret' = [ret EXCEPT ![t] = None]
  /\ hist' = [hist EXCEPT ![t] = NoHist]
  /\ UNCHANGED << mocks, lock, scope, exiting, guards, lin, live, over, done,
                  everSet >>
  /\ UNCHANGED untouched

Next ==
  \/ \E t \in Threads, f \in Exercised, sub \in Subs : CallSetHelper(t, f, sub)
  \/ \E t \in DirectCallers, f \in Exercised, sub \in Subs : CallSetDirect(t, f, sub)
  \/ \E t \in Threads, f \in Exercised : CallWrapper(t, f)
  \/ \E t \in DirectCallers, f \in Exercised, F \in Types : CallGetDirect(t, f, F)
  \/ \E t \in Threads : \E i \in 1 .. Len(scope[t]) : DropExplicit(t, i)
  \/ \E t \in Threads : ScopeExit(t)
  \/ \E t \in Threads : SetBody(t)
  \/ \E t \in Threads : GetBody(t)
  \/ \E t \in Threads : DropBody(t)
  \/ \E t \in Threads : Unlock(t)
  \/ \E t \in Threads, f \in Exercised : \E args \in ArgsOf(f) : Dispatch(t, args)
  \/ \E t \in Threads : Return(t)

Spec == Init /\ [][Next]_vars

\* ------------------------------------------------------------ properties
\* A thread that has executed the body of a get_mock and not yet returned
\* from the operation (or the wrapper) it belongs to.
GotMock(t) == cur[t].op = "get" /\ pc[t] \in {"unlock", "dispatch", "ret"}

\* The same while the thread still holds the lock: the map is as it read it.
GotMockLocked(t) == cur[t].op = "get" /\ pc[t] = "unlock"

\* The entry of key name in the map as an Option of [ty, sub].
Stored(name) ==
  IF \E e \in mocks : e.key = name
    THEN LET e == CHOOSE e \in mocks : e.key = name IN
         Some([ty |-> e.ty, sub |-> e.sub])
    ELSE None

\* C1: once the guard of the latest set_mock on a key has been released
\* (no other set on that key since), the key has no entry, a get_mock on it
\* returns None for every callable type, and the key's dispatch wrapper
\* returns what the original implementation returns.
C1_ReleaseRestoresOriginal ==
  /\ \A g \in GuardIds :
       guards[g].st = "dropped" /\ Fresh(g) => Stored(guards[g].name) = None
  /\ \A t \in Threads :
       GotMock(t) /\ hist[t].rel =>
         /\ found[t] = None
         /\ pc[t] = "ret" =>
              ret[t] = Some(Original(FnById(cur[t].fn), cur[t].args))

\* A wrapper call returns the original's result after a set and the release
\* of its guard; a guard of the other key is still held.
C1_Witness ==
  \E t \in Threads :
    /\ pc[t] = "ret" /\ hist[t].rel
    /\ ret[t] = Some(Original(FnById(cur[t].fn), cur[t].args))
    /\ \E g \in GuardIds : guards[g].st = "held" /\ guards[g].name # cur[t].name

\* The argument lists a callable of type F takes.
ArgsFor(F) == UNION { ArgsOf(f) : f \in { h \in Exercised : MockFnType(h) = F } }

\* C2: while the latest set_mock(k, m) on k has been followed by no release
\* and no further set on k, the map holds exactly m under k, and a get_mock
\* on k with the type m was stored with returns a handle to m (so invoking
\* it gives what m gives on every argument list of that type).
C2_GetReturnsWhatWasSet ==
  /\ \A k \in Keys :
       IsSome(live[k]) =>
         Stored(k) = Some([ty |-> Unwrap(live[k]).ty, sub |-> Unwrap(live[k]).sub])
  /\ \A t \in Threads :
       (GotMockLocked(t) /\ IsSome(live[cur[t].name])
          /\ Unwrap(live[cur[t].name]).ty = cur[t].ty) =>
         /\ found[t] = Some(Unwrap(live[cur[t].name]).sub)
         /\ \A args \in ArgsFor(cur[t].ty) :
              Invoke(Unwrap(found[t]), args)
                = Invoke(Unwrap(live[cur[t].name]).sub, args)

\* A get_mock finds the substitute of its key while the other key holds an
\* entry too and an earlier guard has already been released.
C2_Witness ==
  \E t \in Threads :
    /\ GotMockLocked(t) /\ IsSome(found[t])
    /\ found[t] = Some(Unwrap(live[cur[t].name]).sub)
    /\ \E k \in Keys : k # cur[t].name /\ IsSome(live[k])

\* C3: a dispatch wrapper asks get_mock for its definition's key with its
\* definition's callable type; it returns the substitute's result on the
\* forwarded arguments when get_mock found one and the original's result
\* when it did not; and a substitute registered through the definition's
\* own helper (and still the latest on the key) is found by the wrapper.
C3_WrapperDispatch ==
  \A t \in Threads :
    cur[t].via = "wrapper" =>
      LET f == FnById(cur[t].fn) IN
      /\ cur[t].op = "get"
      /\ cur[t].name = MockKey(f)
      /\ cur[t].ty = MockFnType(f)
      /\ pc[t] = "ret" =>
           /\ IsSome(found[t]) => ret[t] = Some(Invoke(Unwrap(found[t]), cur[t].args))
           /\ found[t] = None => ret[t] = Some(Original(f, cur[t].args))
      /\ (pc[t] = "unlock" /\ IsSome(live[cur[t].name])
            /\ Unwrap(live[cur[t].name]).fn = cur[t].fn) =>
           found[t] = Some(Unwrap(live[cur[t].name]).sub)

\* The method wrapper A::test returns 20, the result of the substitute its
\* helper registered, not self.x.
C3_Witness ==
  \E t \in Threads :
    /\ pc[t] = "ret" /\ cur[t].fn = "A::test"
    /\ found[t] = Some("always_20")
    /\ ret[t] = Some(20)
    /\ ret[t] # Some(Original(FnById(cur[t].fn), cur[t].args))

\* C4: the map never holds two entries under one key; after a set_mock on
\* a key that already held an entry, the map holds the new substitute and
\* not the overwritten one, and every get_mock with the matching type
\* returns the new one, until the next release or set on that key.
C4_LastSetWins ==
  /\ \A k \in Keys : Cardinality({ e \in mocks : e.key = k }) <= 1
  /\ \A k \in Keys :
       IsSome(over[k]) =>
         /\ IsSome(live[k])
         /\ \A e \in mocks :
              e.key = k => e.ty = Unwrap(live[k]).ty /\ e.sub = Unwrap(live[k]).sub
  /\ \A t \in Threads :
       (GotMockLocked(t) /\ IsSome(over[cur[t].name])
          /\ Unwrap(live[cur[t].name]).ty = cur[t].ty) =>
         /\ found[t] = Some(Unwrap(live[cur[t].name]).sub)
         /\ Unwrap(over[cur[t].name]).sub # Unwrap(live[cur[t].name]).sub =>
              found[t] # Some(Unwrap(over[cur[t].name]).sub)

\* fetch_data's key held mocked_data, was set again with other_data, and a
\* get_mock of the matching type returns other_data.
C4_Witness ==
  \E t \in Threads :
    /\ GotMockLocked(t)
    /\ IsSome(over[cur[t].name])
    /\ Unwrap(over[cur[t].name]).sub = "mocked_data"
    /\ Unwrap(over[cur[t].name]).ty = cur[t].ty
    /\ found[t] = Some("other_data")

\* C5: a get_mock::<T> on a key whose entry was stored with another type
\* returns None; a handle it returns always has the requested type; the
\* operation completes normally, and a wrapper whose get_mock met such an
\* entry returns the original's result.
C5_TypeMismatchIsNotFound ==
  \A t \in Threads :
    GotMock(t) =>
      /\ (IsSome(seen[t]) /\ Unwrap(seen[t]).ty # cur[t].ty) =>
           /\ found[t] = None
           /\ (cur[t].via = "wrapper" /\ pc[t] = "ret") =>
                ret[t] = Some(Original(FnById(cur[t].fn), cur[t].args))
      /\ IsSome(found[t]) =>
           /\ TypeOf(Unwrap(found[t])) = cur[t].ty
           /\ IsSome(seen[t]) /\ Unwrap(seen[t]).ty = cur[t].ty
      /\ (cur[t].via = "wrapper" /\ pc[t] = "ret" /\ IsSome(found[t])) =>
           cur[t].args.tys = TypeOf(Unwrap(found[t])).params

\* The wrapper of fetch_data returns the original's result although its
\* key holds an entry (always_20, stored as dyn Fn(&A) -> i32).
C5_Witness ==
  \E t \in Threads :
    /\ pc[t] = "ret" /\ cur[t].fn = "fetch_data"
    /\ IsSome(seen[t]) /\ Unwrap(seen[t]).sub = "always_20"
    /\ found[t] = None
    /\ ret[t] = Some(Original(FnById("fetch_data"), cur[t].args))

\* C6: a key set_mock was never called with has no entry, and a get_mock on
\* it returns None for every requested type, whatever happened on the other
\* keys.
C6_NeverSetIsNotFound ==
  /\ \A k \in Keys \ everSet : Stored(k) = None
  /\ \A t \in Threads :
       (GotMock(t) /\ cur[t].name \notin everSet) =>
         seen[t] = None /\ found[t] = None

\* A get_mock on a never-set key returns None while the other key was set,
\* overwritten and still holds an entry.
C6_Witness ==
  \E t \in Threads :
    /\ GotMockLocked(t) /\ cur[t].name \notin everSet
    /\ found[t] = None
    /\ \E k \in Keys : IsSome(over[k]) /\ IsSome(Stored(k))

\* The threads inside a critical section of the registry.
InCritical == { t \in Threads : pc[t] \in {"body", "unlock"} }

\* C7: every body of set_mock, get_mock and MockGuard::drop runs with the
\* registry lock held by its thread, so at most one thread is inside a
\* critical section; the map is what the operations give when applied one
\* after the other in the order they took the lock, and every get_mock
\* returns what that sequential execution returns.
C7_SerializedUnderOneLock ==
  /\ \A t \in InCritical : lock = t
  /\ Cardinality(InCritical) <= 1
  /\ lock = "free" => mocks = lin
  /\ \A t \in Threads : GotMock(t) => found[t] = hist[t].expect

\* A get_mock in its critical section finds a substitute whose guard is held
\* by the other thread, which is in the middle of a wrapper call itself.
C7_Witness ==
  \E t \in Threads, u \in Threads :
    /\ t # u
    /\ GotMockLocked(t) /\ IsSome(found[t]) /\ lock = t
    /\ scope[t] = << >> /\ scope[u] # << >>
    /\ pc[u] \in {"dispatch", "ret"}

\* The entry an operation that has returned left under a key, as get sees it.
AsEntry(name, o) ==
  IF IsSome(o)
    THEN Some([key |-> name, ty |-> Unwrap(o).ty, sub |-> Unwrap(o).sub])
    ELSE None

\* C8: a get_mock called after a set_mock on its key returned (and after
\* every later set or release on that key returned) observes the entry of
\* that set; called after the release of a guard of the key returned, it
\* observes no entry.
C8_GetObservesCompletedOps ==
  \A t \in Threads :
    GotMock(t) => seen[t] = AsEntry(cur[t].name, hist[t].hb)

\* A get_mock observes the entry of a set that returned after an earlier
\* guard of the same key had been released.
C8_Witness ==
  \E t \in Threads :
    /\ GotMockLocked(t) /\ IsSome(hist[t].hb) /\ IsSome(seen[t])
    /\ \E g \in GuardIds : guards[g].name = cur[t].name /\ guards[g].st = "dropped"

\* The places of the test bodies' scopes: thread and position.
Places == { p \in Threads \X (1 .. Len(guards)) : p[2] <= Len(scope[p[1]]) }

\* The threads running MockGuard::drop for guard g.
Dropping(g) == { t \in Threads : cur[t].op = "drop" /\ cur[t].guard = g }

\* C9: a guard's drop makes exactly one remove, on the key set_mock bound
\* the guard to: a guard in a scope has made none, a released guard has
\* made one, and a guard that is being or has been dropped is in no scope
\* (and no guard is in two), so it is not dropped again.
C9_OneRemovePerGuard ==
  /\ \A g \in GuardIds :
       /\ guards[g].removes <= 1
       /\ guards[g].st = "dropped" <=> guards[g].removes = 1
       /\ guards[g].st = "held" => Dropping(g) = {}
       /\ guards[g].st = "dropping" => Cardinality(Dropping(g)) = 1
  /\ \A p \in Places :
       /\ guards[scope[p[1]][p[2]]].st = "held"
       /\ \A q \in Places : q # p => scope[q[1]][q[2]] # scope[p[1]][p[2]]
  /\ \A t \in Threads :
       cur[t].op = "drop" =>
         /\ cur[t].name = guards[cur[t].guard].name
         /\ pc[t] = "unlock" => guards[cur[t].guard].removes = 1

\* An explicit drop(g) has just made its one removal, after another guard
\* had been released.
C9_Witness ==
  \E t \in Threads :
    /\ pc[t] = "unlock" /\ cur[t].op = "drop" /\ cur[t].via = "explicit"
    /\ guards[cur[t].guard].removes = 1
    /\ \E g \in GuardIds : g # cur[t].guard /\ guards[g].st = "dropped"

\* C10: the release of any guard of a key leaves the key without entry,
\* whichever set_mock stored the current entry; a guard still held whose
\* key lost its entry that way finds no entry (a get_mock returns None), and
\* its own release leaves the map as it was.
C10_SharedRemoval ==
  /\ \A t \in Threads :
       (pc[t] = "unlock" /\ cur[t].op = "drop") =>
         /\ Stored(cur[t].name) = None
         /\ guards[cur[t].guard].orphaned => mocks = hist[t].before
  /\ \A g \in GuardIds :
       (guards[g].st # "dropped" /\ guards[g].orphaned) =>
         /\ Stored(guards[g].name) = None
         /\ \A t \in Threads :
              GotMockLocked(t) /\ cur[t].name = guards[g].name => found[t] = None

\* A key was set twice and one of the two guards released; the other guard
\* is released in its turn, finds no entry and leaves the map as it was.
C10_Witness ==
  \E t \in Threads :
    /\ pc[t] = "unlock" /\ cur[t].op = "drop"
    /\ guards[cur[t].guard].orphaned
    /\ \E g \in GuardIds :
         /\ g # cur[t].guard
         /\ guards[g].name = cur[t].name /\ guards[g].st = "dropped"
    /\ mocks = hist[t].before
    /\ Stored(cur[t].name) = None

\* ------------------------------------------------ the keys of a crate
\* #[mockable] expanded on the annotated items of a crate, one after the
\* other; each expansion builds the item's key from where it stands.
MaxItems == 2

Modules == { << "m" >>, << "m", "A" >>, << "n" >> }
SelfTypes == { << "A" >>, << "B" >>, << "dyn", "Foo" >>, << "dynFoo" >> }
FnNames == { "test", "f" }

\* The annotated free functions and methods a crate may hold.
FnItems == [module : Modules, self_ty : { << >> }, name : FnNames]
ImplItems == [module : Modules, self_ty : SelfTypes, name : FnNames]

Expand(d) ==
  /\ d \notin DOMAIN expanded
  /\ Cardinality(DOMAIN expanded) < MaxItems
  /\ expanded' = [e \in DOMAIN expanded \cup {d} |->
                    IF e = d THEN ItemKey(d) ELSE expanded[e]]
  /\ UNCHANGED runtime

\* MockableItem::Fn(input_fn) => generate_mockable_fn(input_fn)
ExpandFn(d) == d \in FnItems /\ Expand(d)

\* MockableItem::Impl(input_impl) => generate_mockable_impl(input_impl),
\* for one method of the block.
ExpandImpl(d) == d \in ImplItems /\ Expand(d)

KeysInit ==
  /\ RegistryInit
  /\ OwnershipInit
  /\ expanded = [d \in {} |-> ""]

KeysNext ==
  \/ \E d \in FnItems : ExpandFn(d)
  \/ \E d \in ImplItems : ExpandImpl(d)

SpecKeys == KeysInit /\ [][KeysNext]_vars

\* The key the claim describes: the scope path, the owning type's name if
\* there is one, and the function's name, "::" between them.
Qualified(d) ==
  Join(<< Join(d.module, "::") >>
         \o (IF d.self_ty = << >> THEN << >> ELSE << Join(d.self_ty, "") >>)
         \o << d.name >>, "::")

\* C11: every expanded definition has the key <module path>::<function
\* name>, or <module path>::<owning type name>::<function name> for a
\* method, and no two distinct definitions have the same key.
C11_KeysInjective ==
  /\ \A d \in DOMAIN expanded : expanded[d] = Qualified(d)
  /\ \A d \in DOMAIN expanded, e \in DOMAIN expanded :
       d # e => expanded[d] # expanded[e]

\* ----------------------------------------- properties of the registry (2)
\* C15: a guard's release removes exactly the entries of its key and
\* completes; when the key had no entry (a guard of the same key was
\* released before) the map is left as it was, and removing the key once
\* more would change nothing.
C15_RemovalIdempotent ==
  \A t \in Threads :
    (pc[t] = "unlock" /\ cur[t].op = "drop") =>
      /\ mocks = { e \in hist[t].before : e.key # cur[t].name }
      /\ (\A e \in hist[t].before : e.key # cur[t].name) => mocks = hist[t].before
      /\ { e \in mocks : e.key # cur[t].name } = mocks
      /\ guards[cur[t].guard].st = "dropped"

\* At the end of a test body a guard is released whose key had lost its
\* entry to the release of another guard: its one remove changed nothing.
C15_Witness ==
  \E t \in Threads :
    /\ pc[t] = "unlock" /\ cur[t].op = "drop" /\ cur[t].via = "scope"
    /\ \A e \in hist[t].before : e.key # cur[t].name
    /\ mocks = hist[t].before
    /\ guards[cur[t].guard].removes = 1
    /\ \E g \in GuardIds : g # cur[t].guard /\ guards[g].name = cur[t].name

\* The operation whose body thread t executes in this step: on key k, one
\* of ops.
Executes(t, ops, k) ==
  /\ pc[t] = "body" /\ pc'[t] = "unlock"
  /\ cur[t].op \in ops /\ cur[t].name = k

\* C16: a step changes the entry of a key only if it is the body of a
\* set_mock on that key or of the release of a guard bound to that key,
\* and an entry goes away only by the release of a guard bound to its key;
\* the entries of all other keys stay as they are.
C16_OtherKeysUntouched ==
  [][\A k \in Keys :
       /\ Stored(k)' # Stored(k) =>
            \E t \in Threads : Executes(t, {"set", "drop"}, k)
       /\ (IsSome(Stored(k)) /\ Stored(k)' = None) =>
            \E t \in Threads : /\ Executes(t, {"drop"}, k)
                                /\ guards[cur[t].guard].name = k]_vars

\* Both keys held a substitute; the guard of one has been released and the
\* substitute of the other is still in place.
C16_Witness ==
  \E t \in Threads :
    /\ pc[t] = "unlock" /\ cur[t].op = "drop"
    /\ \E e \in hist[t].before : e.key = cur[t].name
    /\ \E e \in mocks : e.key # cur[t].name /\ e \in hist[t].before

\* C17: every entry in the map is the one the latest set_mock on its key
\* inserted, and the guard that set_mock minted has not been released;
\* whenever every guard minted so far has been released the map is empty,
\* a get_mock finds nothing, and a dispatch wrapper whose get_mock ran in
\* such a state returns the original's result.
C17_EntriesHaveLiveGuards ==
  /\ \A e \in mocks :
       /\ \E g \in GuardIds : /\ guards[g].name = e.key /\ Fresh(g)
                               /\ guards[g].st # "dropped"
       /\ live[e.key] = Some([ty |-> e.ty, sub |-> e.sub,
                               fn |-> Unwrap(live[e.key]).fn])
  /\ (\A g \in GuardIds : guards[g].st = "dropped") => mocks = {}
  /\ \A t \in Threads :
       (GotMock(t) /\ hist[t].bare) =>
         /\ seen[t] = None /\ found[t] = None
         /\ pc[t] = "ret" =>
              ret[t] = Some(Original(FnById(cur[t].fn), cur[t].args))

\* Two guards were minted and both released; a wrapper called afterwards
\* returns the original's result.
C17_Witness ==
  \E t \in Threads :
    /\ pc[t] = "ret" /\ hist[t].bare
    /\ Len(guards) = MaxGuards
    /\ \A g \in GuardIds : guards[g].st = "dropped"
    /\ mocks = {}
    /\ ret[t] = Some(Original(FnById(cur[t].fn), cur[t].args))

\* C18: no step of a get_mock (taking the lock, the lookup, the return)
\* changes the map, whatever the lookup gives; an entry the lookup met with
\* a type other than the requested one is still stored as it was when the
\* lookup is over.
C18_GetLeavesRegistry ==
  [][\A t \in Threads :
       /\ (pc[t] = "idle" /\ pc'[t] = "body" /\ cur'[t].op = "get") =>
            mocks' = mocks
       /\ (cur[t].op = "get" /\ pc[t] \in {"body", "unlock"}) => mocks' = mocks
       /\ (cur[t].op = "get" /\ pc[t] = "body" /\ pc'[t] = "unlock"
             /\ IsSome(seen'[t]) /\ found'[t] = None) =>
            Stored(cur[t].name)' = Some([ty |-> Unwrap(seen'[t]).ty,
                                         sub |-> Unwrap(seen'[t]).sub])]_vars

\* A wrapper's get_mock met an entry of another type and found nothing;
\* a get_mock on the same key with the entry's type, called after it,
\* finds the very same entry and returns its substitute.
C18_Witness ==
  \E t \in Threads, u \in Threads :
    /\ t # u /\ Len(guards) = 1
    /\ pc[u] \in {"dispatch", "ret"} /\ IsSome(seen[u]) /\ found[u] = None
    /\ GotMockLocked(t) /\ cur[t].name = cur[u].name
    /\ seen[t] = seen[u]
    /\ found[t] = Some(Unwrap(seen[u]).sub)

\* ---------------------------------------------- ownership of the closures
\* The registry with what the values it stores own.  set_mock is handed an
\* Arc<F>; the map entry owns one reference, every get_mock that finds the
\* entry returns another (Arc::clone), and the closure is destroyed, with
\* what it captured, when the last reference goes.  A closure is Send +
\* Sync + 'static and may own a MockGuard.  Here `sub` of a map entry is
\* the allocation the Arc points to, and a thread is a stack of steps.

\* set_mock calls (closures allocated) in one behaviour.
MaxArcs == 3

\* Dispatch wrapper calls nested in one another in one thread.
MaxDepth == 2

\* What SpecOwn keeps as RegistryInit left it.
unused == << pc, cur, seen, found, ret, exiting, lin, live, over, done, everSet,
            hist, expanded >>

FnOfKey(k) == CHOOSE f \in Exercised : MockKey(f) = k
TyOfKey(k) == MockFnType(FnOfKey(k))

\* A closure: what its body does when called (kind, key) and the MockGuard
\* it owns (0: none).  "plain" returns a value; "calls" calls the mockable
\* function of key; "sets" registers a substitute for key through the helper
\* and holds the guard to the end of its body; "releases" releases the guard
\* it owns (kept in a cell) the first time it is called.
Closure(kind, key, keeps) == [kind |-> kind, key |-> key, keeps |-> keeps]

\* The key that is not k.
OtherKey(k) == CHOOSE j \in Keys : j # k

\* The closures a test body that holds the guards `held` registers for key
\* k: one that calls another mockable function, one that sets a mock for
\* its own function, and those that own one of the guards.
ClosuresOf(held, k) ==
  { Closure("plain", "", 0), Closure("calls", OtherKey(k), 0),
    Closure("sets", k, 0) }
    \cup { Closure(kind, "", held[i]) :
             kind \in {"plain", "releases"}, i \in 1 .. Len(held) }

\* The thread whose test body sets and releases mocks, and the thread that
\* runs the code calling the mockable functions.
Mockers == {"t1"}
Callers == {"t2"}

\* Arc::new(mock)
ArcNew(c) == [kind |-> c.kind, key |-> c.key, keeps |-> c.keeps,
              strong |-> 1, alive |-> TRUE]

\* Mutant: the handle is a copy of the pointer; the count stays.
ArcCloneUncounted(heap, a) == heap

\* Arc::clone(&wrapper.0): one more reference to the allocation.
ArcCloneIn(heap, a) == [heap EXCEPT ![a].strong = @ + 1]

\* Drop of an Arc: one reference less; the last one destroys the closure
\* and drops what it owns.
Freed == [kind |-> "", key |-> "", keeps |-> 0, strong |-> 0, alive |-> FALSE]

ArcDrop(heap, a) ==
  IF heap[a].strong > 1 THEN [heap EXCEPT ![a].strong = @ - 1]
  ELSE [heap EXCEPT ![a] = Freed]

NoTask == [do |-> "", op |-> "", name |-> "", arc |-> 0, guard |-> 0,
           into |-> "", sub |-> << >>]

\* A call of set_mock, get_mock or MockGuard::drop about to take the lock.
LockFor(op, name, arc, guard, into) ==
  [NoTask EXCEPT !.do = "lock", !.op = op, !.name = name, !.arc = arc,
                 !.guard = guard, !.into = into]

\* MockGuard::drop(&mut self) of guard g, bound to name.
DropGuardTask(g, name) == LockFor("drop", name, 0, g, "")

\* The MutexGuard going out of scope.
UnlockTask == [NoTask EXCEPT !.do = "unlock"]

\* A reference to allocation a held by this thread, to be dropped.
HandleTask(heap, a) ==
  [NoTask EXCEPT !.do = "drop_handle", !.arc = a,
                 !.sub = << heap[a].kind, heap[a].key >>]

\* What runs when the reference to allocation a is dropped in heap: if it is
\* the last and the closure owns a guard, the guard's drop.
Destructors(heap, a) ==
  IF heap[a].strong = 1 /\ heap[a].keeps # 0
    THEN << DropGuardTask(heap[a].keeps, guards[heap[a].keeps].name) >>
    ELSE << >>

Pending(t) == mode[t] \in {"run", "unwind"} /\ tasks[t] # << >>
Idle(t) == mode[t] = "run" /\ tasks[t] = << >>
Next1(t) == Head(tasks[t])

\* The wrapper calls thread t is inside of.
Handles(t) == { i \in 1 .. Len(tasks[t]) : tasks[t][i].do = "drop_handle" }

\* ------------------------------------------------ calls of the test bodies
\* set_mock_<fn>(closure): the helper wraps the closure in an Arc (the
\* guard it captures moves into it) and calls MockRegistry::set_mock.
OwnSetMock(t, k, c) ==
  /\ Idle(t)
  /\ Len(arcs) < MaxArcs
  /\ c \in ClosuresOf(scope[t], k)
  /\ arcs' = Append(arcs, ArcNew(c))
  /\ scope' = [scope EXCEPT ![t] = SelectSeq(@, LAMBDA g : g # c.keeps)]
  /\ tasks' = [tasks EXCEPT ![t] =
                 << LockFor("set", k, Len(arcs) + 1, 0, "scope") >>]
  /\ UNCHANGED << mocks, lock, guards, poisoned, mode >>
  /\ UNCHANGED unused

\* A call of the dispatch wrapper of key k: get_mock first.
OwnCallWrapper(t, k) ==
  /\ Idle(t)
  /\ tasks' = [tasks EXCEPT ![t] = << LockFor("get", k, 0, 0, "") >>]
  /\ UNCHANGED << mocks, lock, guards, scope, arcs, poisoned, mode >>
  /\ UNCHANGED unused

\* drop(g) of a guard the test body holds.
OwnDropGuard(t, i) ==
  /\ Idle(t)
  /\ i \in 1 .. Len(scope[t])
  /\ tasks' = [tasks EXCEPT ![t] =
                 << DropGuardTask(scope[t][i], guards[scope[t][i]].name) >>]
  /\ scope' = [scope EXCEPT ![t] = MoveOut(@, i)]
  /\ UNCHANGED << mocks, lock, guards, arcs, poisoned, mode >>
  /\ UNCHANGED unused

\* --------------------------------------------------- MOCKS.lock().unwrap()
\* Mutant: a poisoned lock is taken all the same (into_inner()).
LockOutcomesIgnoringPoison(l, p, t) ==
  IF l = t THEN {"deadlock", "panic"}
  ELSE IF ~MutexFree(l) THEN {}
  ELSE {"ok"}

\* What MOCKS.lock().unwrap() can do when thread t calls it: return the
\* MutexGuard; block while another thread holds the mutex; panic on the
\* PoisonError of a poisoned mutex; and when t itself holds the mutex, not
\* return: deadlock or panic, as the platform's mutex has it.
LockOutcomes(l, p, t) ==
  IF l = t THEN {"deadlock", "panic"}
  ELSE IF ~MutexFree(l) THEN {}
  ELSE IF p THEN {"panic"}
  ELSE {"ok"}

\* lock() returns the MutexGuard to thread t, whose next step is the call
\* of `op`: the body of the operation runs from here with the mutex held,
\* and the MutexGuard is dropped when the operation returns or unwinds.
Locks(t, op) ==
  /\ Pending(t) /\ Next1(t).do = "lock" /\ Next1(t).op = op
  /\ "ok" \in LockOutcomes(lock, poisoned, t)
  /\ lock' = t

\* lock() called by the thread that holds the mutex never returns.
OwnDeadlock(t) ==
  /\ Pending(t) /\ Next1(t).do = "lock"
  /\ "deadlock" \in LockOutcomes(lock, poisoned, t)
  /\ mode' = [mode EXCEPT ![t] = "stuck"]
  /\ UNCHANGED << mocks, lock, guards, scope, arcs, poisoned, tasks >>
  /\ UNCHANGED unused

\* What a panic leaves of the steps ahead: the destructors of what the
\* frames being unwound own (MutexGuards, Arcs, MockGuards).
IsCleanup(task) ==
  \/ task.do \in {"unlock", "drop_handle"}
  \/ task.do = "lock" /\ task.op = "drop"

\* The steps of a thread that panics in the lock() of `failed`: the Arc a
\* set_mock was handed is dropped, then the frames' destructors run, the
\* test body's guards last (latest first).
Unwinding(failed, rest, held) ==
  (IF failed.op = "set" THEN << HandleTask(arcs, failed.arc) >> ELSE << >>)
    \o SelectSeq(rest, IsCleanup)
    \o [i \in 1 .. Len(held) |->
          DropGuardTask(held[Len(held) + 1 - i], guards[held[Len(held) + 1 - i]].name)]

\* lock().unwrap() panics and the thread starts to unwind.
OwnPanic(t) ==
  /\ mode[t] = "run" /\ tasks[t] # << >> /\ Next1(t).do = "lock"
  /\ "panic" \in LockOutcomes(lock, poisoned, t)
  /\ mode' = [mode EXCEPT ![t] = "unwind"]
  /\ tasks' = [tasks EXCEPT ![t] = Unwinding(Head(@), Tail(@), scope[t])]
  /\ scope' = [scope EXCEPT ![t] = << >>]
  /\ UNCHANGED << mocks, lock, guards, arcs, poisoned >>
  /\ UNCHANGED unused

\* lock().unwrap() panics in a destructor run by unwinding: the process
\* aborts.
OwnAbort(t) ==
  /\ mode[t] = "unwind" /\ tasks[t] # << >> /\ Next1(t).do = "lock"
  /\ "panic" \in LockOutcomes(lock, poisoned, t)
  /\ mode' = [u \in Threads |-> "aborted"]
  /\ UNCHANGED << mocks, lock, guards, scope, arcs, poisoned, tasks >>
  /\ UNCHANGED unused

\* ------------------------------------------- the bodies, under the lock
\* mocks.insert(name.to_string(), Box::new(MockWrapper(mock))): the value
\* insert returns, the entry it displaced, is dropped at the end of the
\* statement, before the guard is made.
OwnInsert(t) ==
  /\ Locks(t, "set")
  /\ LET h == Next1(t)
         old == HashMapGet(mocks, h.name) IN
     /\ mocks' = HashMapInsert(mocks, h.name, MockWrapper(TyOfKey(h.name), h.arc))
     /\ arcs' = IF IsSome(old) THEN ArcDrop(arcs, Unwrap(old).sub) ELSE arcs
     /\ tasks' = [tasks EXCEPT ![t] =
                    (IF IsSome(old) THEN Destructors(arcs, Unwrap(old).sub) ELSE << >>)
                      \o << [h EXCEPT !.do = "mint"], UnlockTask >> \o Tail(@)]
  /\ UNCHANGED << guards, scope, poisoned, mode >>
  /\ UNCHANGED unused

\* MockGuard::new(name.to_string()) is returned to the caller, the
\* MutexGuard dropped on the way: a test body keeps the guard in its scope,
\* a closure body to the end of the body.
OwnMint(t) ==
  /\ Pending(t) /\ Next1(t).do = "mint"
  /\ LET h == Next1(t)
         g == Len(guards) + 1 IN
     /\ guards' = Append(guards, [name |-> h.name, st |-> "held",
                                  orphaned |-> FALSE, removes |-> 0])
     /\ IF h.into = "scope"
          THEN /\ scope' = [scope EXCEPT ![t] = Append(@, g)]
               /\ tasks' = [tasks EXCEPT ![t] = Tail(Tail(@))]
          ELSE /\ scope' = scope
               /\ tasks' = [tasks EXCEPT ![t] =
                              << DropGuardTask(g, h.name) >> \o Tail(Tail(@))]
  /\ lock' = "free"
  /\ UNCHANGED << mocks, arcs, poisoned, mode >>
  /\ UNCHANGED unused

\* mocks.get(name).and_then(downcast_ref).map(Arc::clone): a handle found is
\* the wrapper's to call and then drop.
OwnGet(t) ==
  /\ Locks(t, "get")
  /\ LET h == Next1(t)
         got == LookupMock(mocks, h.name, TyOfKey(h.name)) IN
     IF IsSome(got)
       THEN /\ arcs' = ArcCloneIn(arcs, Unwrap(got))
            /\ tasks' = [tasks EXCEPT ![t] =
                 << UnlockTask, [NoTask EXCEPT !.do = "invoke", !.arc = Unwrap(got)],
                    HandleTask(arcs, Unwrap(got)) >> \o Tail(@)]
       ELSE /\ arcs' = arcs
            /\ tasks' = [tasks EXCEPT ![t] = << UnlockTask >> \o Tail(@)]
  /\ UNCHANGED << mocks, guards, scope, poisoned, mode >>
  /\ UNCHANGED unused

\* mocks.remove(&self.name): the entry removed is dropped at the end of
\* the statement.
OwnRemove(t) ==
  /\ Locks(t, "drop")
  /\ LET h == Next1(t)
         old == HashMapGet(mocks, h.name) IN
     /\ mocks' = HashMapRemove(mocks, h.name)
     /\ arcs' = IF IsSome(old) THEN ArcDrop(arcs, Unwrap(old).sub) ELSE arcs
     /\ tasks' = [tasks EXCEPT ![t] =
                    (IF IsSome(old) THEN Destructors(arcs, Unwrap(old).sub) ELSE << >>)
                      \o << UnlockTask >> \o Tail(@)]
  /\ UNCHANGED << guards, scope, poisoned, mode >>
  /\ UNCHANGED unused

\* The MutexGuard is dropped: the mutex is unlocked, and poisoned if the
\* thread is panicking.
OwnUnlock(t) ==
  /\ Pending(t) /\ Next1(t).do = "unlock"
  /\ lock' = "free"
  /\ poisoned' = (poisoned \/ mode[t] = "unwind")
  /\ tasks' = [tasks EXCEPT ![t] = Tail(@)]
  /\ UNCHANGED << mocks, guards, scope, arcs, mode >>
  /\ UNCHANGED unused

\* ------------------------------------------------- the dispatch wrapper
\* return mock_fn(args): the body of the closure runs.
OwnInvoke(t) ==
  /\ mode[t] = "run" /\ tasks[t] # << >> /\ Next1(t).do = "invoke"
  /\ LET c == arcs[Next1(t).arc] IN
     CASE c.kind = "calls" ->
            /\ Cardinality(Handles(t)) < MaxDepth
            /\ tasks' = [tasks EXCEPT ![t] =
                           << LockFor("get", c.key, 0, 0, "") >> \o Tail(@)]
            /\ arcs' = arcs
       [] c.kind = "sets" ->
            /\ Len(arcs) < MaxArcs
            /\ arcs' = Append(arcs, ArcNew(Closure("plain", "", 0)))
            /\ tasks' = [tasks EXCEPT ![t] =
                 << LockFor("set", c.key, Len(arcs) + 1, 0, "local") >> \o Tail(@)]
       [] c.kind = "releases" /\ c.keeps # 0 ->
            /\ arcs' = [arcs EXCEPT ![Next1(t).arc].keeps = 0]
            /\ tasks' = [tasks EXCEPT ![t] =
                 << DropGuardTask(c.keeps, guards[c.keeps].name) >> \o Tail(@)]
       [] OTHER ->
            /\ arcs' = arcs
            /\ tasks' = [tasks EXCEPT ![t] = Tail(@)]
  /\ UNCHANGED << mocks, lock, guards, scope, poisoned, mode >>
  /\ UNCHANGED unused

\* mock_fn goes out of scope when the wrapper returns (or unwinds).
OwnDropHandle(t) ==
  /\ Pending(t) /\ Next1(t).do = "drop_handle"
  /\ arcs' = ArcDrop(arcs, Next1(t).arc)
  /\ tasks' = [tasks EXCEPT ![t] = Destructors(arcs, Next1(t).arc) \o Tail(@)]
  /\ UNCHANGED << mocks, lock, guards, scope, poisoned, mode >>
  /\ UNCHANGED unused

OwnInit ==
  /\ RegistryInit
  /\ OwnershipInit
  /\ expanded = [d \in { ItemOf(f) : f \in Fns } |-> ItemKey(d)]

OwnNext ==
  \/ \E t \in Mockers, k \in Keys : \E c \in ClosuresOf(scope[t], k) : OwnSetMock(t, k, c)
  \/ \E t \in Callers, k \in Keys : OwnCallWrapper(t, k)
  \/ \E t \in Mockers : \E i \in 1 .. Len(scope[t]) : OwnDropGuard(t, i)
  \/ \E t \in Threads : OwnDeadlock(t)
  \/ \E t \in Threads : OwnPanic(t)
  \/ \E t \in Threads : OwnAbort(t)
  \/ \E t \in Threads : OwnInsert(t)
  \/ \E t \in Threads : OwnMint(t)
  \/ \E t \in Threads : OwnGet(t)
  \/ \E t \in Threads : OwnRemove(t)
  \/ \E t \in Threads : OwnUnlock(t)
  \/ \E t \in Threads : OwnInvoke(t)
  \/ \E t \in Threads : OwnDropHandle(t)

SpecOwn == OwnInit /\ [][OwnNext]_vars

\* ------------------------------------------- properties of the ownership
\* C12: no thread calls MOCKS.lock() while it holds the mutex, in set_mock,
\* get_mock or MockGuard::drop, the destruction of the entry an insert
\* displaces or a remove takes out included; no thread is blocked for ever
\* in a lock() on a mutex it holds itself.
C12_NoNestedLocking ==
  \A t \in Threads :
    /\ (Pending(t) /\ Next1(t).do = "lock") => lock # t
    /\ mode[t] = "stuck" => lock # t

\* The references to allocation a: the map entry that holds it, the
\* handles the threads hold, and an Arc on its way into set_mock.
Holders(a) ==
  { h \in UNION { { << t, i >> : i \in DOMAIN tasks[t] } : t \in Threads } :
      LET t == h[1]
          i == h[2]
      IN
      /\ tasks[t][i].arc = a
      /\ \/ tasks[t][i].do = "drop_handle"
         \/ tasks[t][i].do = "lock" /\ tasks[t][i].op = "set" }

Refs(a) == Cardinality({ e \in mocks : e.sub = a }) + Cardinality(Holders(a))

\* C13: a handle a get_mock returned refers to a closure that is alive and
\* is the one the handle was cloned from, whether or not the map still
\* holds it; a closure is destroyed only when neither the map nor any
\* handle refers to it (the count of an allocation is the number of its
\* references).
C13_HandlesStayValid ==
  /\ \A t \in Threads : \A i \in Handles(t) :
       /\ arcs[tasks[t][i].arc].alive
       /\ tasks[t][i].sub = << arcs[tasks[t][i].arc].kind, arcs[tasks[t][i].arc].key >>
  /\ \A a \in 1 .. Len(arcs) :
       /\ ~arcs[a].alive => Refs(a) = 0
       /\ arcs[a].strong = Refs(a)

\* A thread is about to call the closure its get_mock returned; meanwhile
\* the guard was released or the key set again, and the handle is the only
\* reference left to the closure, which is alive.
C13_Witness ==
  \E t \in Threads :
    /\ Pending(t) /\ Next1(t).do = "invoke"
    /\ arcs[Next1(t).arc].alive /\ arcs[Next1(t).arc].strong = 1
    /\ \A e \in mocks : e.sub # Next1(t).arc
    /\ lock = "free"

\* C14: once the mutex is poisoned it stays poisoned; from then on no
\* lock() succeeds, so the map and the guards stay as they are (nothing is
\* stored, removed, or returned), and every thread that reaches a lock()
\* panics there: it unwinds, or the process aborts when it was unwinding.
C14_PoisonIsFinal ==
  [][poisoned =>
       /\ poisoned'
       /\ mocks' = mocks /\ guards' = guards
       /\ lock = "free" /\ lock' = "free"
       /\ \A t \in Threads :
            (Pending(t) /\ Next1(t).do = "lock" /\ << tasks[t], mode[t] >> # << tasks'[t], mode'[t] >>)
              => /\ mode'[t] \in {"unwind", "aborted"}
                 /\ mode'[t] # mode[t]]_vars

\* The mutex was poisoned by one thread's panic under the lock, and the
\* other thread's lock() has panicked since, with entries left in the map.
C14_Witness ==
  /\ poisoned /\ mocks # {}
  /\ \A t \in Threads : mode[t] = "unwind"

\* Thread t is in the body of a closure a wrapper called: it holds the
\* handle and the call has begun.
InSubstitute(t) ==
  \E i \in Handles(t) : i = 1 \/ tasks[t][i - 1].do # "invoke"

\* The wrapper calls the closure after get_mock has returned, the mutex
\* released by the calling thread.
InvokesUnlocked ==
  \A t \in Threads : (Pending(t) /\ Next1(t).do = "invoke") => lock # t

\* C19: the wrapper calls the closure only after get_mock has returned and
\* released the mutex, and a thread in the body of such a closure, whether
\* the body calls a mockable function, sets a mock or drops a guard, never
\* blocks forever in a lock().
C19_SubstituteCompletes ==
  /\ InvokesUnlocked
  /\ \A t \in Threads : InSubstitute(t) => mode[t] # "stuck"

====
